---- MODULE Spec2Model ----
(***************************************************************************)
(* Model of ai_data_analyst.py: the natural-language-to-SQL pipeline of    *)
(* the Streamlit page (upload, run, model call with fallback, extraction   *)
(* of SQL or explanation from the reply, execution against DuckDB).        *)
(*                                                                         *)
(* Text is a sequence of tokens.  A token is either one back-tick, one     *)
(* run of white space, or a word that holds neither (the words the code    *)
(* searches for, and "select" for any other word).  Python's find, strip,  *)
(* startswith and slicing are computed on these sequences position by      *)
(* position, with Python's 0-based offsets.                                *)
(***************************************************************************)
EXTENDS Naturals, Integers, Sequences, FiniteSets, TLC

\* ------------------------------------------------------------------ bounds
\* A reply of the completion service is a concatenation of at most MaxFrags
\* fragments; the user has NumDatasets different files to upload.
MaxFrags == 4
NumDatasets == 2

\* ------------------------------------------------------------ text helpers
BT == "BACKTICK"
WS == " "

\* s[a:b] for 0 <= a, 0 <= b (Python slice with non-negative offsets).
Slice(s, a, b) == SubSeq(s, a + 1, IF b > Len(s) THEN Len(s) ELSE b)

\* s[a:] for 0 <= a.
SliceFrom(s, a) == SubSeq(s, a + 1, Len(s))

\* pat occurs in s at 0-based offset i.
OccursAt(s, pat, i) ==
    /\ i >= 0
    /\ i + Len(pat) <= Len(s)
    /\ \A k \in 1..Len(pat) : s[i + k] = pat[k]

\* str.find(pat, from): the lowest offset >= from of an occurrence, else -1.
Find(s, pat, from) ==
    LET hits == {i \in from..(Len(s) - Len(pat)) : OccursAt(s, pat, i)}
    IN  IF hits = {} THEN -1
        ELSE CHOOSE i \in hits : \A j \in hits : i <= j

\* pat in s.
Contains(s, pat) == Find(s, pat, 0) # -1

\* str.startswith.
StartsWith(s, pat) == OccursAt(s, pat, 0)

RECURSIVE LStrip(_)
LStrip(s) == IF s # <<>> /\ Head(s) = WS THEN LStrip(Tail(s)) ELSE s

RECURSIVE RStrip(_)
RStrip(s) ==
    IF s # <<>> /\ s[Len(s)] = WS THEN RStrip(SubSeq(s, 1, Len(s) - 1)) ELSE s

\* str.strip(): white space removed at both ends.
Strip(s) == RStrip(LStrip(s))

\* str.lower() on the words of a model name.
LowerWord(w) ==
    IF w \in {"Mixtral", "MIXTRAL"} THEN "mixtral"
    ELSE IF w = "OpenAI/" THEN "openai/"
    ELSE w

Lower(s) == [i \in 1..Len(s) |-> LowerWord(s[i])]

\* ------------------------------------------------------- literals of the code
FenceLower == <<BT, BT, BT, "sql">>
FenceUpper == <<BT, BT, BT, "SQL">>
FenceClose == <<BT, BT, BT>>
Marker == <<"EXPLANATION:">>
SelectToken == <<"SELECT">>
RelationName == "data_df"
DefaultModel == <<"openai/", "gpt-oss-120b">>
FallbackModel == <<"meta-llama/", "llama-4-scout-17b-16e-instruct">>
DeprecatedFamily == <<"mixtral">>

\* An optional text: Python's None, or a str.
None == [isNone |-> TRUE, v |-> <<>>]
Some(s) == [isNone |-> FALSE, v |-> s]

\* Python truthiness of an optional str: not None and not empty.
Truthy(o) == ~o.isNone /\ o.v # <<>>

\* ------------------------------------------------- the completion service
\* What the remote service does with one outbound call: it returns a message
\* content, or the client raises an exception.
Exceptions == {"APIConnectionError", "NotFoundError"}
NoExc == "-"
Returned(c) == [ok |-> TRUE, content |-> c, exc |-> NoExc]
Raised(e) == [ok |-> FALSE, content |-> <<>>, exc |-> e]

\* The pieces a reply is made of: the texts the code searches for, a lone
\* back-tick, white space, and a word the code does not search for.
Fragments ==
    {FenceLower, FenceUpper, FenceClose, <<BT>>, Marker, SelectToken,
     <<"select">>, <<WS>>}

RECURSIVE Concats(_)
Concats(n) ==
    IF n = 0 THEN {<<>>}
    ELSE LET prev == Concats(n - 1)
         IN  prev \cup {p \o f : p \in prev, f \in Fragments}

\* The replies the service may give.
Replies == Concats(MaxFrags)

\* The outcomes of the primary call, and of the fallback call.
PrimaryOutcomes ==
    {Returned(r) : r \in Replies} \cup {Raised(e) : e \in Exceptions}
FallbackOutcomes ==
    {Returned(r) : r \in Concats(1)} \cup {Raised(e) : e \in Exceptions}

\* The outcomes to draw for a fallback call after the primary call ended in
\* po: the function makes no second call after a primary call that returned,
\* so one outcome stands for all of them there.
FallbackAfter(po) == IF po.ok THEN {Raised(NoExc)} ELSE FallbackOutcomes

\* ------------------------------------------------------- call_groq_model
\* Variant: every model is taken for a deprecated one.
IsDeprecatedFamily_Any(model) == TRUE

\* "mixtral" in model.lower()
IsDeprecatedFamily(model) == Contains(Lower(model), DeprecatedFamily)

\* Variant: when the fallback fails too, its exception is the one raised.
call_groq_model_RaisesFallback(system, user_msg, model, po, fo) ==
    LET messages == <<[role |-> "system", content |-> system],
                      [role |-> "user", content |-> user_msg]>>
        first == [model |-> model, messages |-> messages, outcome |-> po]
        second == [model |-> FallbackModel, messages |-> messages, outcome |-> fo]
    IN  IF po.ok
        THEN [calls |-> <<first>>, raised |-> FALSE,
              content |-> po.content, exc |-> "-"]
        ELSE IF IsDeprecatedFamily(model)
        THEN IF fo.ok
             THEN [calls |-> <<first, second>>, raised |-> FALSE,
                   content |-> fo.content, exc |-> "-"]
             ELSE [calls |-> <<first, second>>, raised |-> TRUE,
                   content |-> <<>>, exc |-> fo.exc]
        ELSE [calls |-> <<first>>, raised |-> TRUE,
              content |-> <<>>, exc |-> po.exc]

\* call_groq_model(system, user_msg, model), given what the service does with
\* the primary call (po) and with a fallback call (fo).  The value is the
\* outbound calls made, in order, each with its outcome, and either the
\* content returned or the exception raised.
call_groq_model(system, user_msg, model, po, fo) ==
    LET messages == <<[role |-> "system", content |-> system],
                      [role |-> "user", content |-> user_msg]>>
        first == [model |-> model, messages |-> messages, outcome |-> po]
        second == [model |-> FallbackModel, messages |-> messages, outcome |-> fo]
    IN  IF po.ok
        THEN [calls |-> <<first>>, raised |-> FALSE,
              content |-> po.content, exc |-> NoExc]
        ELSE IF IsDeprecatedFamily(model)
        THEN IF fo.ok
             THEN [calls |-> <<first, second>>, raised |-> FALSE,
                   content |-> fo.content, exc |-> NoExc]
             ELSE [calls |-> <<first, second>>, raised |-> TRUE,
                   content |-> <<>>, exc |-> po.exc]
        ELSE [calls |-> <<first>>, raised |-> TRUE,
              content |-> <<>>, exc |-> po.exc]

NoResult == [calls |-> <<>>, raised |-> FALSE, content |-> <<>>, exc |-> NoExc]

\* ---------------------------------------------------------- SQL extraction
\* Variant: end is used without the test for -1, so that reply[start:-1]
\* drops the last token.
FencedBody_NoEndCheck(reply, start, end) ==
    IF end # -1 THEN Strip(Slice(reply, start, end))
    ELSE Strip(Slice(reply, start, Len(reply) - 1))

\* reply[start:end].strip() if end != -1 else reply[start:].strip()
FencedBody(reply, start, end) ==
    IF end # -1 THEN Strip(Slice(reply, start, end))
    ELSE Strip(SliceFrom(reply, start))

\* Variant: the closing fence is searched from the start of the reply.
ExtractFenced_CloseFromZero(reply, fence) ==
    LET start == Find(reply, fence, 0) + Len(fence)
        end == Find(reply, FenceClose, 0)
    IN  FencedBody(reply, start, end)

\* The body after the first occurrence of the fence opener.
ExtractFenced(reply, fence) ==
    LET start == Find(reply, fence, 0) + Len(fence)
        end == Find(reply, FenceClose, start)
    IN  FencedBody(reply, start, end)

\* Variant: the bare statement is recognised in lower case too.
ExtractSql_AnyCaseSelect(reply) ==
    IF Contains(reply, FenceLower) THEN Some(ExtractFenced(reply, FenceLower))
    ELSE IF Contains(reply, FenceUpper) THEN Some(ExtractFenced(reply, FenceUpper))
    ELSE IF StartsWith(Strip(reply), SelectToken)
            \/ StartsWith(Strip(reply), <<"select">>) THEN Some(Strip(reply))
    ELSE None

\* The if / elif / elif chain that sets sql.
ExtractSql(reply) ==
    IF Contains(reply, FenceLower) THEN Some(ExtractFenced(reply, FenceLower))
    ELSE IF Contains(reply, FenceUpper) THEN Some(ExtractFenced(reply, FenceUpper))
    ELSE IF StartsWith(Strip(reply), SelectToken) THEN Some(Strip(reply))
    ELSE None

\* reply.strip().startswith("EXPLANATION:")
IsExplanation(reply) == StartsWith(Strip(reply), Marker)

\* Variant: the SQL branch is tested before the explanation branch.
Dispatch_SqlFirst(reply, sql) ==
    IF Truthy(sql) THEN "SqlExtracted"
    ELSE IF IsExplanation(reply) THEN "ExplanationShown"
    ELSE "Unrecognized"

\* The branch taken on the reply: the explanation, the SQL or the warning.
Dispatch(reply, sql) ==
    IF IsExplanation(reply) THEN "ExplanationShown"
    ELSE IF Truthy(sql) THEN "SqlExtracted"
    ELSE "Unrecognized"

\* ------------------------------------------------------------ the engine
\* Variant: a registration is added to the earlier ones.
Register_NoReplace(reg, name, data) == reg \cup {<<name, data>>}

\* duckdb.register(name, data): the name is bound to data, replacing what it
\* was bound to.
Register(reg, name, data) ==
    {r \in reg : r[1] # name} \cup {<<name, data>>}

\* The datasets bound to a name.
Bound(reg, name) == {r[2] : r \in {q \in reg : q[1] = name}}

\* What duckdb.sql(sql).fetchdf() does: it returns a table, or raises an
\* engine error with a message.
EngineErrors == {"Parser Error", "Binder Error"}
EngineOutcomes == {"ok"} \cup EngineErrors

\* The table the engine computes for a statement over the relation.
ResultTable(reg, sql) ==
    [sql |-> sql, data |-> CHOOSE d \in Bound(reg, RelationName) : TRUE]

\* --------------------------------------------------------------- the page
\* One element drawn on the page: v is its text, data the dataset a drawn
\* table was computed from (0 for an element that is no table).
Widget(w, v, data) == [w |-> w, v |-> v, data |-> data]
Subheader(t) == Widget("subheader", t, 0)
Info(t) == Widget("info", t, 0)
Code(t) == Widget("code", t, 0)
Warning(t) == Widget("warning", t, 0)
Error(t) == Widget("error", t, 0)
Dataframe(res) == Widget("dataframe", res.sql, res.data)
DownloadButton(res) == Widget("download_button", res.sql, res.data)

\* Variant: the failure of the model call is swallowed and the run goes on.
OnServiceError_Continues(e) ==
    [pc |-> "ModelInvoked",
     display |-> <<Subheader(<<"Generated SQL Query">>)>>]

\* The except block around the model call and the dispatch.
OnServiceError(e) ==
    [pc |-> "ServiceFailed",
     display |-> <<Error(<<"Error:", e>>),
                   Info(<<"Make sure your GROQ_API_KEY is valid">>)>>]

\* Variant: no inner try block, the outer except block reports the failure.
OnExecutionError_Propagates(shown, e, reply) ==
    [pc |-> "ServiceFailed",
     display |-> shown \o <<Error(<<"Error:", e>>),
                            Info(<<"Make sure your GROQ_API_KEY is valid">>)>>]

\* The except block around the execution.
OnExecutionError(shown, e, reply) ==
    [pc |-> "Executed",
     display |-> shown \o <<Error(<<"SQL Execution Error:", e>>),
                            Info(<<"Raw Response from AI:">>),
                            Code(reply)>>]

\* The page after a successful execution.
OnExecutionSuccess(shown, res) ==
    [pc |-> "Executed",
     display |-> shown \o <<Subheader(<<"Query Results">>),
                            Dataframe(res), DownloadButton(res)>>]

\* Variant: the check box is ignored.
ShouldExecute_Always(sql_only) == TRUE

\* Whether the execution block is entered after the SQL was shown.
ShouldExecute(sql_only) == ~sql_only

\* The prompt pair.
SystemPrompt == "You are an expert SQL analyst"
Questions == {"How many records are there?"}
UserMsg(data, query) == [columns |-> data, sample |-> data, question |-> query]

Datasets == 1..NumDatasets
NoData == 0

VARIABLES
    df,         \* st.session_state.df: the dataset loaded, or NoData
    sql_only,   \* the check box "Get SQL Query Only"
    registry,   \* the relations registered with DuckDB: <<name, dataset>>
    pc,         \* where the script run stands
    run_df,     \* the run's local df
    model,      \* the model argument of call_groq_model
    user_msg,   \* the user message of the prompt pair
    result,     \* what call_groq_model did: its calls and its return or raise
    reply,      \* the run's reply
    sql,        \* the run's sql
    display,    \* the elements the run has drawn, in order
    executed    \* the statements the engine ran in this run, in order, each
                \* with the dataset it ran on and what the engine did

vars ==
    <<df, sql_only, registry, pc, run_df, model, user_msg, result, reply, sql,
      display, executed>>

NoMsg == UserMsg(NoData, "")

\* The run's locals before a run.
RunReset ==
    /\ run_df' = NoData
    /\ model' = <<>>
    /\ user_msg' = NoMsg
    /\ result' = NoResult
    /\ reply' = <<>>
    /\ sql' = None
    /\ display' = <<>>
    /\ executed' = <<>>

Init ==
    /\ df = NoData
    /\ sql_only = FALSE
    /\ registry = {}
    /\ pc = "Idle"
    /\ run_df = NoData
    /\ model = <<>>
    /\ user_msg = NoMsg
    /\ result = NoResult
    /\ reply = <<>>
    /\ sql = None
    /\ display = <<>>
    /\ executed = <<>>

\* No script run is in progress: the page waits for the user.
AtRest ==
    pc \in {"Idle", "ExplanationShown", "SqlOnly", "Executed", "Unrecognized",
            "ServiceFailed"}

\* The user uploads a file: the script reruns and loads it.
Upload(d) ==
    /\ AtRest
    /\ df' = d
    /\ pc' = "Idle"
    /\ RunReset
    /\ UNCHANGED <<sql_only, registry>>

\* The user flips the check box: the script reruns without a run.
ToggleSqlOnly ==
    /\ AtRest
    /\ sql_only' = ~sql_only
    /\ pc' = "Idle"
    /\ RunReset
    /\ UNCHANGED <<df, registry>>

\* The user presses "Run Analysis" with a question: the dataset is registered
\* and the prompt is built.
RunAnalysis(query) ==
    /\ AtRest
    /\ df # NoData
    /\ query # ""
    /\ run_df' = df
    /\ registry' = Register(registry, RelationName, df)
    /\ user_msg' = UserMsg(df, query)
    /\ pc' = "PromptBuilt"
    /\ model' = <<>>
    /\ result' = NoResult
    /\ reply' = <<>>
    /\ sql' = None
    /\ display' = <<>>
    /\ executed' = <<>>
    /\ UNCHANGED <<df, sql_only>>

\* reply = call_groq_model(system, user_msg), in the try block.
InvokeModel ==
    /\ pc = "PromptBuilt"
    /\ \E po \in PrimaryOutcomes : \E fo \in FallbackAfter(po) :
         LET r == call_groq_model(SystemPrompt, user_msg, DefaultModel, po, fo)
         IN  /\ model' = DefaultModel
             /\ result' = r
             /\ IF r.raised
                THEN /\ pc' = OnServiceError(r.exc).pc
                     /\ display' = OnServiceError(r.exc).display
                     /\ reply' = <<>>
                ELSE /\ pc' = "ModelInvoked"
                     /\ display' = <<Subheader(<<"Generated SQL Query">>)>>
                     /\ reply' = r.content
    /\ UNCHANGED <<df, sql_only, registry, run_df, user_msg, sql, executed>>

\* The extraction of sql and the branch on the reply.
ParseReply ==
    /\ pc = "ModelInvoked"
    /\ sql' = ExtractSql(reply)
    /\ pc' = Dispatch(reply, sql')
    /\ display' =
         IF pc' = "ExplanationShown" THEN display \o <<Info(reply)>>
         ELSE IF pc' = "SqlExtracted" THEN display \o <<Code(sql'.v)>>
         ELSE display \o <<Warning(<<"Could not extract SQL from response">>),
                           Info(<<"AI Response:">>), Code(reply)>>
    /\ UNCHANGED <<df, sql_only, registry, run_df, model, user_msg, result, reply,
                   executed>>

\* sql_only is set: the run ends with the SQL shown.
SqlOnlyDone ==
    /\ pc = "SqlExtracted"
    /\ ~ShouldExecute(sql_only)
    /\ pc' = "SqlOnly"
    /\ UNCHANGED <<df, sql_only, registry, run_df, model, user_msg, result, reply,
                   sql, display, executed>>

\* res = duckdb.sql(sql).fetchdf(), in the inner try block.
ExecuteSql ==
    /\ pc = "SqlExtracted"
    /\ ShouldExecute(sql_only)
    /\ \E eo \in EngineOutcomes :
         LET res == ResultTable(registry, sql.v)
             next == IF eo = "ok"
                     THEN OnExecutionSuccess(display, res)
                     ELSE OnExecutionError(display, eo, reply)
         IN  /\ executed' = Append(executed, [sql |-> res.sql, data |-> res.data,
                                               outcome |-> eo])
             /\ pc' = next.pc
             /\ display' = next.display
    /\ UNCHANGED <<df, sql_only, registry, run_df, model, user_msg, result, reply,
                   sql>>

Next ==
    \/ \E d \in Datasets : Upload(d)
    \/ ToggleSqlOnly
    \/ \E q \in Questions : RunAnalysis(q)
    \/ InvokeModel
    \/ ParseReply
    \/ SqlOnlyDone
    \/ ExecuteSql

Spec == Init /\ [][Next]_vars

\* ------------------------------------- call_groq_model called on its own
\* The function applied to any model name and prompt pair, outside a run of
\* the page: Init draws the arguments, ClientCall applies the function.
ModelNames ==
    {DefaultModel, FallbackModel,
     <<"mixtral", "-8x7b-32768">>, <<"Mixtral", "-8x7b-32768">>,
     <<"open-", "MIXTRAL", "-8x22b">>, <<"llama-3.3-70b-versatile">>}
Systems == {SystemPrompt, "You are a helpful assistant"}

InitClient ==
    /\ df = NoData
    /\ sql_only = FALSE
    /\ registry = {}
    /\ pc = "ClientReady"
    /\ run_df = NoData
    /\ model \in ModelNames
    /\ user_msg \in {UserMsg(d, q) : d \in Datasets, q \in Questions}
    /\ result = NoResult
    /\ reply = <<>>
    /\ sql = None
    /\ display = <<>>
    /\ executed = <<>>

ClientCall ==
    /\ pc = "ClientReady"
    /\ \E system \in Systems, po \in FallbackOutcomes :
         \E fo \in FallbackAfter(po) :
         result' = call_groq_model(system, user_msg, model, po, fo)
    /\ pc' = "ClientDone"
    /\ UNCHANGED <<df, sql_only, registry, run_df, model, user_msg, reply, sql,
                   display, executed>>

NextClient == ClientCall

SpecClient == InitClient /\ [][NextClient]_vars

\* ================================================================ properties
\* A step of the script run (as opposed to a step of the user).
RunStep == InvokeModel \/ ParseReply \/ SqlOnlyDone \/ ExecuteSql

\* The run has taken the branch on the reply.
Parsed ==
    pc \in {"ExplanationShown", "SqlExtracted", "SqlOnly", "Executed",
            "Unrecognized"}

\* The run took the SQL branch.
SqlBranch == pc \in {"SqlExtracted", "SqlOnly", "Executed"}

\* The element w is on the page.
Shows(w) == \E k \in 1..Len(display) : display[k] = w

\* The positions of the page's elements of one kind.
OfKind(kind) == {k \in 1..Len(display) : display[k].w = kind}

\* pat occurs somewhere in s.
Occurs(s, pat) == \E k \in 0..Len(s) : OccursAt(s, pat, k)

\* The trimmed reply starts with the explanation marker.
MarkerFirst == StartsWith(Strip(reply), Marker)

\* C1: a reply whose trimmed text starts with "EXPLANATION:" ends the run in
\* ExplanationShown with the full raw reply shown; no SQL is shown and the
\* engine runs nothing, whatever fence or SELECT follows the marker.
C1_ExplanationWins ==
    (Parsed /\ MarkerFirst) =>
        /\ pc = "ExplanationShown"
        /\ display[Len(display)] = Info(reply)
        /\ OfKind("code") = {}
        /\ OfKind("dataframe") = {}
        /\ executed = <<>>
        /\ ~ENABLED RunStep

\* A reply with the marker first and a fenced statement after it, shown as
\* an explanation.
C1_Witness ==
    /\ pc = "ExplanationShown"
    /\ MarkerFirst
    /\ Occurs(reply, FenceLower)
    /\ Truthy(sql)

\* The offsets of the lower-case openers in the reply, and the offsets of
\* the closing fences after the opener at offset i: the reply reads as
\* prefix + opener + body + close + suffix for each such pair.
Openers == {i \in 0..Len(reply) : OccursAt(reply, FenceLower, i)}
Closes(i) ==
    {j \in (i + Len(FenceLower))..Len(reply) : OccursAt(reply, FenceClose, j)}

PrefixOf(i) == Slice(reply, 0, i)
BodyOf(i, j) == Slice(reply, i + Len(FenceLower), j)
SuffixOf(j) == SliceFrom(reply, j + Len(FenceClose))

\* The run took the SQL branch with the statement s, and shows it.
ExtractedIs(s) == SqlBranch /\ sql = Some(s) /\ Shows(Code(s))

\* C2 as stated: for every way to read the reply (no marker first) as
\* prefix + opener + body + close + suffix, the SQL extracted is the body,
\* trimmed.
C2_AsStated ==
    (Parsed /\ ~MarkerFirst) =>
        \A i \in Openers : \A j \in Closes(i) :
            ExtractedIs(Strip(BodyOf(i, j)))

\* C2 amended: the same, for the readings whose prefix holds no opener,
\* whose body holds no closing fence and does not end in a back-tick, and
\* whose body is not blank.
C2_FirstFence ==
    (Parsed /\ ~MarkerFirst) =>
        \A i \in Openers : \A j \in Closes(i) :
            ( /\ ~Occurs(PrefixOf(i), FenceLower)
              /\ ~Occurs(BodyOf(i, j), FenceClose)
              /\ (BodyOf(i, j) = <<>> \/ BodyOf(i, j)[Len(BodyOf(i, j))] # BT)
              /\ Strip(BodyOf(i, j)) # <<>> )
            => ExtractedIs(Strip(BodyOf(i, j)))

\* A reply with text before the opener, its body extracted.
C2_Witness ==
    /\ SqlBranch
    /\ \E i \in Openers \ {0} : \E j \in Closes(i) :
         /\ ~Occurs(PrefixOf(i), FenceLower)
         /\ ~Occurs(BodyOf(i, j), FenceClose)
         /\ Strip(BodyOf(i, j)) # <<>>
         /\ BodyOf(i, j)[Len(BodyOf(i, j))] # BT
         /\ sql = Some(Strip(BodyOf(i, j)))

\* The reply's first opener is at offset i and no closing fence follows it.
Unclosed(i) ==
    /\ OccursAt(reply, FenceLower, i)
    /\ ~Occurs(PrefixOf(i), FenceLower)
    /\ Closes(i) = {}

RestOf(i) == SliceFrom(reply, i + Len(FenceLower))

\* C6 as stated: a reply (no marker first) whose opener has no closing
\* fence after it yields the SQL made of all that follows the opener,
\* trimmed, and never the unrecognized outcome.
C6_AsStated ==
    (Parsed /\ ~MarkerFirst) =>
        \A i \in Openers :
            Unclosed(i) => ExtractedIs(Strip(RestOf(i)))

\* C6 amended: the same, when what follows the reply's first opener is not
\* blank.
C6_UnclosedFence ==
    (Parsed /\ ~MarkerFirst) =>
        \A i \in Openers :
            (Unclosed(i) /\ Strip(RestOf(i)) # <<>>)
            => ExtractedIs(Strip(RestOf(i)))

\* An unclosed opener followed by text with white space around it.
C6_Witness ==
    /\ SqlBranch
    /\ \E i \in Openers :
         /\ Unclosed(i)
         /\ Strip(RestOf(i)) # <<>>
         /\ Strip(RestOf(i)) # RestOf(i)
         /\ sql = Some(Strip(RestOf(i)))

\* C7: a reply with no marker first and no SQL fence of either case is
\* taken whole (trimmed) as SQL when its trimmed text starts with SELECT;
\* otherwise, lower-case select included, the run ends unrecognized with
\* the raw reply shown and nothing executed.
C7_BareSelect ==
    (Parsed /\ ~MarkerFirst /\ ~Occurs(reply, FenceLower)
            /\ ~Occurs(reply, FenceUpper)) =>
        IF StartsWith(Strip(reply), SelectToken)
        THEN ExtractedIs(Strip(reply))
        ELSE /\ pc = "Unrecognized"
             /\ display[Len(display)] = Code(reply)
             /\ OfKind("warning") # {}
             /\ OfKind("dataframe") = {}
             /\ executed = <<>>
             /\ ~ENABLED RunStep

\* A reply that starts with lower-case select, unrecognized.
C7_Witness ==
    /\ pc = "Unrecognized"
    /\ StartsWith(Strip(reply), <<"select">>)
    /\ Len(reply) > 1

\* C8: with sql_only set, a run that extracted SQL ends in SqlOnly with the
\* SQL shown and the engine runs nothing; with sql_only clear, the engine
\* runs that SQL once and the run ends in Executed, with the result or with
\* the error.
C8_SqlOnlyGate ==
    /\ pc = "SqlExtracted" =>
         IF sql_only
         THEN ENABLED SqlOnlyDone /\ ~ENABLED ExecuteSql
         ELSE ENABLED ExecuteSql /\ ~ENABLED SqlOnlyDone
    /\ pc = "SqlOnly" =>
         /\ sql_only
         /\ Shows(Code(sql.v))
         /\ executed = <<>>
         /\ OfKind("dataframe") = {}
         /\ ~ENABLED RunStep
    /\ pc = "Executed" =>
         /\ ~sql_only
         /\ Len(executed) = 1
         /\ executed[1].sql = sql.v
         /\ (OfKind("dataframe") = {}) # (OfKind("error") = {})
         /\ ~ENABLED RunStep
    /\ executed # <<>> => pc = "Executed"

\* A run that stopped at the SQL.
C8_Witness ==
    /\ pc = "SqlOnly"
    /\ Truthy(sql)
    /\ executed = <<>>

\* C9: at most one dataset is registered under "data_df", and the engine
\* only runs SQL on the dataset of the current run, which is the one loaded
\* last.
C9_OneRegistration ==
    /\ Cardinality(Bound(registry, RelationName)) <= 1
    /\ \A k \in 1..Len(executed) :
         /\ executed[k].data = run_df
         /\ run_df = df
         /\ Bound(registry, RelationName) = {df}

\* A statement ran on the last of the datasets.
C9_Witness ==
    /\ pc = "Executed"
    /\ df = NumDatasets
    /\ executed[1].data = NumDatasets

\* C10: a run of the page makes one outbound call, with the default model,
\* whose name holds no "mixtral"; when that call fails the run ends in
\* ServiceFailed.
C10_SingleCall ==
    /\ \A k \in 1..Len(DefaultModel) : LowerWord(DefaultModel[k]) # "mixtral"
    /\ pc \notin {"Idle", "PromptBuilt"} =>
         /\ model = DefaultModel
         /\ Len(result.calls) = 1
         /\ result.calls[1].model = DefaultModel
         /\ (~result.calls[1].outcome.ok => pc = "ServiceFailed")

\* A run whose single call failed.
C10_Witness ==
    /\ pc = "ServiceFailed"
    /\ Len(result.calls) = 1
    /\ ~result.calls[1].outcome.ok

\* C5: when the model call fails the run is in ServiceFailed with the cause
\* shown: no SQL extracted or shown, nothing executed, no result, and no
\* further step of the run.
C5_ServiceFailed ==
    result.raised =>
        /\ pc = "ServiceFailed"
        /\ \E k \in OfKind("error") : display[k].v = <<"Error:", result.exc>>
        /\ sql = None
        /\ executed = <<>>
        /\ OfKind("code") = {}
        /\ OfKind("dataframe") = {}
        /\ OfKind("subheader") = {}
        /\ ~ENABLED RunStep

\* A failed model call, reported.
C5_Witness ==
    /\ result.raised
    /\ result.exc \in Exceptions
    /\ display # <<>>

\* C4: when the engine fails, the run ends in Executed with the engine's
\* message and the raw reply shown, and is not reported as a service error;
\* when the engine succeeds, the table is shown and the raw reply is not
\* (the only code element is the SQL).
C4_ExecutionOutcome ==
    \A k \in 1..Len(executed) :
        IF executed[k].outcome # "ok"
        THEN /\ pc = "Executed"
             /\ \E e \in OfKind("error") :
                  display[e].v = <<"SQL Execution Error:", executed[k].outcome>>
             /\ Shows(Info(<<"Raw Response from AI:">>))
             /\ display[Len(display)] = Code(reply)
             /\ OfKind("dataframe") = {}
        ELSE /\ pc = "Executed"
             /\ Shows(Dataframe([sql |-> sql.v, data |-> run_df]))
             /\ OfKind("error") = {}
             /\ ~Shows(Info(<<"Raw Response from AI:">>))
             /\ \A c \in OfKind("code") : c = 2 /\ display[c] = Code(sql.v)

\* A failed execution of a statement that is not the whole reply.
C4_Witness ==
    /\ pc = "Executed"
    /\ executed[1].outcome \in EngineErrors
    /\ sql.v # reply
    /\ display[Len(display)] = Code(reply)

\* The model names of the deprecated family among ModelNames.
MixtralNames ==
    {<<"mixtral", "-8x7b-32768">>, <<"Mixtral", "-8x7b-32768">>,
     <<"open-", "MIXTRAL", "-8x22b">>}

\* C3: when the primary call fails and the model is of the mixtral family,
\* one more call is made, to the fallback model with the same messages; its
\* content is returned if it succeeds, and the primary's exception is raised
\* if it fails.  No invocation makes more than two calls.
C3_FallbackOnce ==
    pc = "ClientDone" =>
        /\ Len(result.calls) \in {1, 2}
        /\ result.calls[1].model = model
        /\ (model \in MixtralNames /\ ~result.calls[1].outcome.ok) =>
             /\ Len(result.calls) = 2
             /\ result.calls[2].model = FallbackModel
             /\ result.calls[2].messages = result.calls[1].messages
             /\ IF result.calls[2].outcome.ok
                THEN /\ ~result.raised
                     /\ result.content = result.calls[2].outcome.content
                ELSE /\ result.raised
                     /\ result.exc = result.calls[1].outcome.exc

\* Both calls failed, with different exceptions, and the primary's is raised.
C3_Witness ==
    /\ pc = "ClientDone"
    /\ model \in MixtralNames
    /\ Len(result.calls) = 2
    /\ ~result.calls[2].outcome.ok
    /\ result.calls[1].outcome.exc # result.calls[2].outcome.exc
    /\ result.exc = result.calls[1].outcome.exc

====
